---------------------------- MODULE Spec2Model ----------------------------
(***************************************************************************)
(* A model of backgroundarr's app.py: the directory resolution done by the *)
(* /select_artwork and /confirm_directory handlers, the artwork download   *)
(* they trigger, and the scan-cache patch that follows a download.         *)
(*                                                                         *)
(* A title or a directory name is a string; Spell gives its characters as  *)
(* a sequence of one-character strings, so that lower(), the regular       *)
(* expression of normalize_title and difflib's SequenceMatcher are         *)
(* computed character by character, as the code computes them.             *)
(***************************************************************************)
EXTENDS Integers, Sequences, FiniteSets, TLC

(***************************************************************************)
(* Characters.                                                             *)
(***************************************************************************)
UpperChars ==
    <<"A", "B", "C", "D", "E", "F", "G", "H", "I", "J", "K", "L", "M",
      "N", "O", "P", "Q", "R", "S", "T", "U", "V", "W", "X", "Y", "Z">>

LowerChars ==
    <<"a", "b", "c", "d", "e", "f", "g", "h", "i", "j", "k", "l", "m",
      "n", "o", "p", "q", "r", "s", "t", "u", "v", "w", "x", "y", "z">>

DigitChars == <<"0", "1", "2", "3", "4", "5", "6", "7", "8", "9">>

\* The characters of the model in code point order (what Python compares
\* strings by).
CodePointOrder ==
    <<" ", "#", "(", ")", "-">> \o DigitChars \o <<"@">> \o UpperChars
        \o LowerChars

Range(s) == {s[i] : i \in 1..Len(s)}

IndexOf(s, c) == CHOOSE i \in 1..Len(s) : s[i] = c

\* A character left in its case.
KeepChar(c) == c

\* str.lower() on one character.
LowerChar(c) ==
    IF c \in Range(UpperChars) THEN LowerChars[IndexOf(UpperChars, c)] ELSE c

\* str.lower()
Lower(s) == [i \in 1..Len(s) |-> LowerChar(s[i])]

\* The character class [a-z0-9] of normalize_title and generate_clean_id.
IsLowerAlnum(c) == c \in Range(LowerChars) \cup Range(DigitChars)

\* normalize_title: re.sub(r'[^a-z0-9]+', '', title.lower())
normalize_title(title) == SelectSeq(Lower(title), IsLowerAlnum)

\* Two titles and their keys: nothing normalized yet.
NoNorm == [t1 |-> <<>>, t2 |-> <<>>, k1 |-> <<"?">>, k2 |-> <<"?">>]

\* No request is being served step by step.
NoThreads == <<>>

\* Python's < on str: lexicographic by code point.
RECURSIVE StrLess(_, _)
StrLess(s, t) ==
    IF t = <<>> THEN FALSE
    ELSE IF s = <<>> THEN TRUE
    ELSE IF s[1] = t[1] THEN StrLess(Tail(s), Tail(t))
    ELSE IndexOf(CodePointOrder, s[1]) < IndexOf(CodePointOrder, t[1])

(***************************************************************************)
(* difflib.SequenceMatcher(None, a, b).  Positions are Python's: 0-based,  *)
(* ranges half open.  The autojunk heuristic only acts on a second         *)
(* sequence of 200 or more elements, longer than any name of the model.    *)
(***************************************************************************)
\* The length of the common prefix of a[i:ahi] and b[j:bhi].
RECURSIVE CommonLen(_, _, _, _, _, _)
CommonLen(a, b, i, j, ahi, bhi) ==
    IF i < ahi /\ j < bhi /\ a[i + 1] = b[j + 1]
    THEN 1 + CommonLen(a, b, i + 1, j + 1, ahi, bhi)
    ELSE 0

SetMax(S) == CHOOSE x \in S : \A y \in S : y <= x
SetMin(S) == CHOOSE x \in S : \A y \in S : x <= y

\* find_longest_match: the longest block a[i:i+k] = b[j:j+k] within the
\* ranges; of the longest ones, the one that starts earliest in a and, of
\* those, earliest in b.  size 0 when nothing matches.
find_longest_match(a, b, alo, ahi, blo, bhi) ==
    LET I == alo..(ahi - 1)
        J == blo..(bhi - 1)
        k == IF I = {} \/ J = {} THEN 0
             ELSE SetMax({CommonLen(a, b, i, j, ahi, bhi) : i \in I, j \in J})
    IN  IF k = 0 THEN [i |-> alo, j |-> blo, size |-> 0]
        ELSE LET bi == SetMin({i \in I : \E j \in J :
                                 CommonLen(a, b, i, j, ahi, bhi) = k})
                 bj == SetMin({j \in J : CommonLen(a, b, bi, j, ahi, bhi) = k})
             IN  [i |-> bi, j |-> bj, size |-> k]

\* get_matching_blocks, summed: the number of matched characters.
RECURSIVE Matches(_, _, _, _, _, _)
Matches(a, b, alo, ahi, blo, bhi) ==
    LET m == find_longest_match(a, b, alo, ahi, blo, bhi)
    IN  IF m.size = 0 THEN 0
        ELSE m.size
             + Matches(a, b, alo, m.i, blo, m.j)
             + Matches(a, b, m.i + m.size, ahi, m.j + m.size, bhi)

\* SequenceMatcher(None, a, b).ratio(): 2.0 * matches / (len(a) + len(b)),
\* and 1.0 when both are empty.  Kept as the fraction <<numerator,
\* denominator>>; for names this short two different fractions are further
\* apart than a rounding error, so the comparisons of the floats are the
\* comparisons of the fractions.
SequenceMatcher_ratio(a, b) ==
    IF Len(a) + Len(b) = 0 THEN <<1, 1>>
    ELSE <<2 * Matches(a, b, 0, Len(a), 0, Len(b)), Len(a) + Len(b)>>

\* x > y, x >= y on fractions with positive denominators.
FracGt(x, y) == x[1] * y[2] > y[1] * x[2]
FracGe(x, y) == x[1] * y[2] >= y[1] * x[2]


(***************************************************************************)
(* Configuration and the bounded world.  In the state a directory name or  *)
(* a title is a plain string; Spell gives its characters.                  *)
(***************************************************************************)
\* movie_folders and tv_folders: the configured roots, in order.
movie_folders == <<"M1", "M2">>
tv_folders == <<"T1">>
Roots == Range(movie_folders) \cup Range(tv_folders)

MediaTypes == {"movie", "tv"}

\* ARTWORK_TYPES, each with its file_prefix (equal to the key).
ARTWORK_TYPES == {"poster", "logo", "backdrop"}
file_prefix(artwork_type) == artwork_type

\* The extensions searched, in the order the loops try them.
Extensions == <<"jpg", "jpeg", "png">>

\* Python's None, for a string and for a path.
None == "<None>"
NoPath == <<"<None>", "<None>">>

\* Directory names and titles of the small library, and those of the
\* specification's worked example.
SmallNames == {"ab", "A-b", "abc", "abcd", "abcde"}
SmallTitles == {"ab", "A b", "abcd", "abxy"}
ExampleNames == {"Breaking Bad (2008)", "Better Call Saul (2015)"}
ExampleTitles == {"Breaking Bad", "Breaking Bod", "Saul"}
\* A library with a housekeeping folder, and the titles asked of it.
CacheNames == {"ab", "abc", "#Recycle"}
CacheTitles == {"ab", "Recycle"}

AllStrings ==
    SmallNames \cup SmallTitles \cup ExampleNames \cup ExampleTitles
        \cup CacheNames \cup CacheTitles

\* The characters of a string.
Spell(x) ==
    CASE x = "ab" -> <<"a", "b">>
      [] x = "A-b" -> <<"A", "-", "b">>
      [] x = "abc" -> <<"a", "b", "c">>
      [] x = "abcd" -> <<"a", "b", "c", "d">>
      [] x = "abcde" -> <<"a", "b", "c", "d", "e">>
      [] x = "Breaking Bad (2008)" -> <<"B", "r", "e", "a", "k", "i", "n", "g", " ", "B", "a", "d", " ", "(", "2", "0", "0", "8", ")">>
      [] x = "Better Call Saul (2015)" -> <<"B", "e", "t", "t", "e", "r", " ", "C", "a", "l", "l", " ", "S", "a", "u", "l", " ", "(", "2", "0", "1", "5", ")">>
      [] x = "A b" -> <<"A", " ", "b">>
      [] x = "abxy" -> <<"a", "b", "x", "y">>
      [] x = "Breaking Bad" -> <<"B", "r", "e", "a", "k", "i", "n", "g", " ", "B", "a", "d">>
      [] x = "Breaking Bod" -> <<"B", "r", "e", "a", "k", "i", "n", "g", " ", "B", "o", "d">>
      [] x = "Saul" -> <<"S", "a", "u", "l">>
      [] x = "#Recycle" -> <<"#", "R", "e", "c", "y", "c", "l", "e">>
      [] x = "Recycle" -> <<"R", "e", "c", "y", "c", "l", "e">>
      [] x = "@eadir" -> <<"@", "e", "a", "d", "i", "r">>
      [] x = "#recycle" -> <<"#", "r", "e", "c", "y", "c", "l", "e">>
      [] x = "poster" -> <<"p", "o", "s", "t", "e", "r">>
      [] x = "logo" -> <<"l", "o", "g", "o">>
      [] x = "backdrop" -> <<"b", "a", "c", "k", "d", "r", "o", "p">>

\* The similarity of lines 850-852 for every title and name, the ratio of
\* get_close_matches for every name and word, and the order of the strings,
\* each computed once.
NormalizedRatio ==
    [a \in AllStrings |-> [b \in AllStrings |->
        SequenceMatcher_ratio(normalize_title(Spell(a)),
                              normalize_title(Spell(b)))]]

RawRatio ==
    [a \in AllStrings |-> [b \in AllStrings |->
        SequenceMatcher_ratio(Spell(a), Spell(b))]]

Less == [a \in AllStrings |-> [b \in AllStrings |-> StrLess(Spell(a), Spell(b))]]

\* External (TMDb) ids a request may carry.
ExternalIds == {"603"}

\* os.path.join(base_folder, directory) and os.path.basename.
join(base_folder, directory) == <<base_folder, directory>>
basename(path) == path[2]

VARIABLES
    dirs,             \* root -> the names os.listdir finds under it
    files,            \* the artwork files present: [path, name, mtime]
    directoryMapping, \* the Mapping Store document: key -> path
    scanCache,        \* scan_cache_{media}_{artwork}.json: key -> document
    thumbCache,       \* artwork_cache/{hash}/{filename}: the cached copies
    now,              \* the clock file modification times are taken from
    unavailable,      \* unavailable_artwork.json: <<directory, type>> -> flag
    norm,             \* two titles and the keys normalize_title gave them
    threads,          \* two requests served at once, step by step
    req,              \* the request being answered ("none": no request)
    resp              \* the answer to it

vars ==
    <<dirs, files, directoryMapping, scanCache, thumbCache, now, unavailable,
      norm, threads, req, resp>>

\* os.path.exists on a media directory.
PathExists(path) == path[1] \in DOMAIN dirs /\ path[2] \in dirs[path[1]]

\* A file name inside a media directory: {prefix}.{ext} or {prefix}-thumb.{ext}.
FileName(prefix, thumb, ext) == <<prefix, thumb, ext>>

\* safe_exists on a file of a media directory.
FileExists(fs, path, name) == \E f \in fs : f.path = path /\ f.name = name

MtimeOf(fs, path, name) ==
    (CHOOSE f \in fs : f.path = path /\ f.name = name).mtime

(***************************************************************************)
(* The artwork cache: get_cache_path, copy_to_cache,                       *)
(* get_cached_artwork_url.  A cached copy is [directory, name, mtime, src, *)
(* srcMtime]: where it lives, when it was written, and which file's bytes  *)
(* it holds.                                                               *)
(***************************************************************************)
\* hashlib.md5(directory.encode()).hexdigest(): a function of the directory
\* NAME alone; two names are taken never to collide.
dir_hash(directory) == directory

\* get_cached_artwork_url: /cache/{dir_hash}/{filename}
get_cached_artwork_url(directory, filename) == <<dir_hash(directory), filename>>

CacheExists(tc, directory, filename) ==
    \E c \in tc : c.directory = dir_hash(directory) /\ c.name = filename

CacheMtime(tc, directory, filename) ==
    (CHOOSE c \in tc : c.directory = dir_hash(directory) /\ c.name = filename).mtime

\* What the file operations of one copy_to_cache call may do: all succeed;
\* os.path.getmtime raises; get_cache_path, the read of the source or the
\* open of the cache file raises; the write raises after open(cache_path,
\* 'wb') has truncated the cache file.
CopyOutcomes == {"ok", "stat_error", "read_error", "write_error"}

\* The comparison of line 100 with < for <=.
UpToDateStrict(source_mtime, cache_mtime) == source_mtime < cache_mtime

\* Line 100: the cached copy counts as up to date.
UpToDate(source_mtime, cache_mtime) == source_mtime <= cache_mtime

\* The cache with the copy at (directory, filename) replaced by blob.
CachePut(tc, directory, filename, blob) ==
    {c \in tc : ~(c.directory = dir_hash(directory) /\ c.name = filename)}
    \cup {blob}

\* copy_to_cache(source_path, directory, filename).  Returns the cache and
\* the function's result.  whole tells a complete copy from the remains of a
\* write that failed.
copy_to_cache(tc, fs, source_dir, source_name, directory, filename, io) ==
    LET cached == CacheExists(tc, directory, filename)
        source == FileExists(fs, source_dir, source_name)
        blob(whole) == [directory |-> dir_hash(directory), name |-> filename,
                        mtime |-> now, src |-> source_dir,
                        srcMtime |-> MtimeOf(fs, source_dir, source_name),
                        whole |-> whole]
    IN  IF cached /\ (io = "stat_error" \/ ~source)
        THEN \* os.path.getmtime raises: the cached copy is kept
             [cache |-> tc, updated |-> FALSE]
        ELSE IF cached /\ UpToDate(MtimeOf(fs, source_dir, source_name),
                                   CacheMtime(tc, directory, filename))
        THEN [cache |-> tc, updated |-> FALSE]
        ELSE IF io = "read_error" \/ ~source
        THEN [cache |-> tc, updated |-> FALSE]
        ELSE IF io = "write_error"
        THEN [cache |-> CachePut(tc, directory, filename, blob(FALSE)),
              updated |-> FALSE]
        ELSE [cache |-> CachePut(tc, directory, filename, blob(TRUE)),
              updated |-> TRUE]

(***************************************************************************)
(* The scan cache: update_single_cache_entry.  A document is               *)
(* [media_list, total]; an item is a record with the keys get_artwork_data *)
(* writes.                                                                 *)
(***************************************************************************)
\* dict.get(key): None for a key the item does not have.
ItemGet(item, key) == IF key \in DOMAIN item THEN item[key] ELSE None

\* item.get(key) == value, for a value that is not None.
ItemHas(item, key, value) == key \in DOMAIN item /\ item[key] = value

\* item[key] = value, adding the key when the item lacks it.
ItemSet(item, key, value) ==
    [k \in DOMAIN item \cup {key} |-> IF k = key THEN value ELSE item[k]]

\* The first extension, in order, whose full artwork exists (0: none).
FirstArtworkExt(fs, directory_path, prefix) ==
    LET found == {i \in 1..Len(Extensions) :
                    FileExists(fs, directory_path,
                               FileName(prefix, FALSE, Extensions[i]))}
    IN  IF found = {} THEN 0 ELSE SetMin(found)

\* The body of the loop for the matching item: lines 189-209.
PatchItem(item, tc, fs, artwork_type, directory_path, io) ==
    LET prefix == file_prefix(artwork_type)
        directory_name == basename(directory_path)
        e == FirstArtworkExt(fs, directory_path, prefix)
    IN  IF e = 0 THEN [item |-> item, cache |-> tc]
        ELSE LET ext == Extensions[e]
                 found == ItemSet(ItemSet(item, "has_artwork", TRUE),
                                  "artwork_status", "found")
                 thumb == FileName(prefix, TRUE, ext)
             IN  IF FileExists(fs, directory_path, thumb)
                 THEN [item |-> ItemSet(found, "artwork_thumb",
                                        get_cached_artwork_url(directory_name, thumb)),
                       cache |-> copy_to_cache(tc, fs, directory_path, thumb,
                                               directory_name, thumb, io).cache]
                 ELSE [item |-> found, cache |-> tc]

\* update_single_cache_entry(media_type, artwork_type, directory_path).
\* Returns the scan cache, the artwork cache and the function's result.
update_single_cache_entry(sc, tc, fs, media_type, artwork_type, directory_path, io) ==
    LET key == <<media_type, artwork_type>>
    IN  IF key \notin DOMAIN sc
        THEN [scan |-> sc, cache |-> tc, result |-> FALSE]
        ELSE LET media_list == sc[key].media_list
                 hits == {i \in 1..Len(media_list) :
                            \/ ItemHas(media_list[i], "directory",
                                       basename(directory_path))
                            \/ ItemHas(media_list[i], "path", directory_path)}
             IN  IF hits = {}
                 THEN [scan |-> sc, cache |-> tc, result |-> FALSE]
                 ELSE LET i == SetMin(hits)
                          p == PatchItem(media_list[i], tc, fs, artwork_type,
                                         directory_path, io)
                      IN  [scan |-> [sc EXCEPT ![key].media_list[i] = p.item],
                           cache |-> p.cache,
                           result |-> TRUE]

(***************************************************************************)
(* save_artwork_and_thumbnail(artwork_url, media_title, save_dir,          *)
(* artwork_type).  download is what the fetch does: "ok" (status 200 and a *)
(* decodable image), "http_error" (another status, or requests.get raises) *)
(* or "decode_error" (status 200, the bytes are written, Pillow raises).   *)
(* Returns the files and whether a path (True) or None (False) came back.  *)
(***************************************************************************)
DownloadOutcomes == {"ok", "http_error", "decode_error"}

\* Logos are PNG, the others JPEG.
file_ext(artwork_type) == IF artwork_type = "logo" THEN "png" ELSE "jpg"

save_artwork_and_thumbnail(fs, save_dir, artwork_type, download) ==
    LET prefix == file_prefix(artwork_type)
        \* lines 691-733: every existing {prefix}.{ext} and
        \* {prefix}-thumb.{ext} is removed before the download starts
        kept == {f \in fs : ~(f.path = save_dir /\ f.name[1] = prefix)}
        full == [path |-> save_dir,
                 name |-> FileName(prefix, FALSE, file_ext(artwork_type)),
                 mtime |-> now]
        thumb == [path |-> save_dir,
                  name |-> FileName(prefix, TRUE, file_ext(artwork_type)),
                  mtime |-> now]
    IN  CASE download = "ok" -> [files |-> kept \cup {full, thumb}, saved |-> TRUE]
          [] download = "decode_error" -> [files |-> kept \cup {full}, saved |-> FALSE]
          [] OTHER -> [files |-> kept, saved |-> FALSE]

(***************************************************************************)
(* Directory listing.  os.listdir returns the names in arbitrary order, so *)
(* a listing is any arrangement of the names; safe_listdir returns [] when *)
(* os.listdir raises.                                                      *)
(***************************************************************************)
Arrangements(S) ==
    {s \in [1..Cardinality(S) -> S] : \A i, j \in 1..Cardinality(S) :
                                         s[i] = s[j] => i = j}

\* What safe_listdir(path) may return.
safe_listdir(path) == Arrangements(dirs[path]) \cup {<<>>}

\* One choice of what safe_listdir returns for each of the folders.
Listings(folders) ==
    {ls \in [Range(folders) -> UNION {safe_listdir(r) : r \in Range(folders)}] :
        \A r \in Range(folders) : ls[r] \in safe_listdir(r)}

\* The same with one arrangement for each root: enough for a caller that
\* only asks whether a name is in the listing.
ListingsUpToOrder(folders) ==
    {[r \in Range(folders) |->
        IF r \in failed THEN <<>>
        ELSE CHOOSE a \in Arrangements(dirs[r]) : TRUE] :
     failed \in SUBSET Range(folders)}

(***************************************************************************)
(* select_artwork: the search for the directory (lines 835-865).           *)
(***************************************************************************)
\* The threshold of the later revisions, and the cutoff of get_close_matches
\* in its place.
similarity_threshold_tightened == <<9, 10>>
similarity_threshold_cutoff == <<1, 2>>

\* similarity_threshold = 0.8, as a fraction.
similarity_threshold == <<8, 10>>

\* The ratio of the two strings as they are, without normalize_title.
SimilarityRaw(media_title, directory) == RawRatio[media_title][directory]

\* lines 850-852: the similarity of the title and a directory name.
Similarity(media_title, directory) == NormalizedRatio[media_title][directory]

\* line 860: the exact match.
ExactMatch(directory, media_title) == directory = media_title

\* The inner loop over one root's listing, from position k on.  st holds
\* save_dir, best_similarity and best_match_dir.
RECURSIVE ScanDirectories(_, _, _, _, _)
ScanDirectories(st, base_folder, directories, k, media_title) ==
    IF k > Len(directories) THEN st
    ELSE LET directory == directories[k]
             similarity == Similarity(media_title, directory)
             st1 == IF FracGt(similarity, st.best_similarity)
                    THEN [st EXCEPT !.best_similarity = similarity,
                                    !.best_match_dir = join(base_folder, directory)]
                    ELSE st
         IN  IF ExactMatch(directory, media_title)
             THEN [st1 EXCEPT !.save_dir = join(base_folder, directory)]
             ELSE ScanDirectories(st1, base_folder, directories, k + 1, media_title)

\* The outer loop over base_folders, from position r on; ls is what
\* safe_listdir returns for each root.  st also holds possible_dirs and the
\* directories listed so far, each with its root.
RECURSIVE ScanFolders(_, _, _, _, _)
ScanFolders(st, base_folders, r, ls, media_title) ==
    IF r > Len(base_folders) THEN st
    ELSE LET base_folder == base_folders[r]
             directories == ls[base_folder]
             st1 == [st EXCEPT !.possible_dirs = @ \o directories,
                               !.listed = @ \cup {join(base_folder, d) :
                                                     d \in Range(directories)}]
             st2 == ScanDirectories(st1, base_folder, directories, 1, media_title)
         IN  IF st2.save_dir # NoPath THEN st2
             ELSE ScanFolders(st2, base_folders, r + 1, ls, media_title)

FindDirectory(base_folders, ls, media_title) ==
    ScanFolders([save_dir |-> NoPath, possible_dirs |-> <<>>, listed |-> {},
                 best_similarity |-> <<0, 1>>, best_match_dir |-> NoPath],
                base_folders, 1, ls, media_title)

(***************************************************************************)
(* difflib.get_close_matches(word, possibilities, n, cutoff).              *)
(***************************************************************************)
\* n=5 and cutoff=0.5 of the call at line 908.
CloseMatchesN == 5
\* A cutoff of 0.25 in its place.
CloseMatchesCutoffLow == <<1, 4>>
CloseMatchesCutoff == <<1, 2>>

\* The order of heapq.nlargest on (score, x) pairs: by score, then by x.
ScoredLess(word, x, y) ==
    LET sx == RawRatio[x][word]
        sy == RawRatio[y][word]
    IN  FracGt(sy, sx) \/ (~FracGt(sx, sy) /\ Less[x][y])

\* sorted(result, reverse=True), by insertion.
RECURSIVE InsertScored(_, _, _)
InsertScored(word, x, s) ==
    IF s = <<>> THEN <<x>>
    ELSE IF ScoredLess(word, x, s[1])
    THEN <<s[1]>> \o InsertScored(word, x, Tail(s))
    ELSE <<x>> \o s

RECURSIVE SortScored(_, _)
SortScored(word, s) ==
    IF s = <<>> THEN <<>>
    ELSE InsertScored(word, s[1], SortScored(word, Tail(s)))

\* All of result, largest first: nlargest without its n.
NLargestUncut(n, word, s) == SortScored(word, s)

\* heapq.nlargest(n, result): the n largest, largest first.
NLargest(n, word, s) ==
    LET sorted == SortScored(word, s)
    IN  SubSeq(sorted, 1, IF Len(sorted) < n THEN Len(sorted) ELSE n)

IsClose(word, x, cutoff) == FracGe(RawRatio[x][word], cutoff)

get_close_matches(word, possibilities, n, cutoff) ==
    LET Close(x) == IsClose(word, x, cutoff)
    IN  NLargest(n, word, SelectSeq(possibilities, Close))

(***************************************************************************)
(* The Mapping Store of the specification (section 4.4): a document        *)
(* {mediaKind}_{externalId} -> directory path.  app.py holds no code for   *)
(* it: get and set are modelled from the specification's description.      *)
(***************************************************************************)
EmptyMap == [k \in {} |-> None]

MapPut(m, k, v) == [x \in DOMAIN m \cup {k} |-> IF x = k THEN v ELSE m[x]]

\* A delete that is not persisted.
MapKeep(m, k) == m

MapDel(m, k) == [x \in DOMAIN m \ {k} |-> m[x]]

\* The key {mediaKind}_{externalId}.
MappingKey(media_type, tmdb_id) == <<media_type, tmdb_id>>

(***************************************************************************)
(* Requests and responses.  A response names the view returned and what    *)
(* the handler decided: the directory it resolved (save_dir), how          *)
(* ("exact", "fuzzy", "selected"; "hit", "miss", "stale" for a read of the *)
(* Mapping Store), whether the artwork was saved, the disambiguation list, *)
(* the directories the handler listed and the best similarity it found.    *)
(***************************************************************************)
NoReq ==
    [op |-> "none", media_title |-> None, media_type |-> "none",
     artwork_type |-> "none", tmdb_id |-> None, directory |-> None,
     selected_directory |-> None, source |-> NoPath, filename |-> <<>>,
     io |-> "none", fails |-> 0, load_ok |-> FALSE, save |-> "none"]

NoResp ==
    [view |-> "none", save_dir |-> NoPath, how |-> "none", saved |-> FALSE,
     similar_dirs |-> <<>>, listed |-> {}, best_similarity |-> <<0, 1>>,
     success |-> FALSE, unavailable |-> FALSE, patched |-> FALSE,
     updated |-> FALSE, media_list |-> <<>>, total |-> 0, calls |-> 0,
     listing |-> <<>>, raised |-> FALSE, failed |-> {}]

BaseFolders(media_type) ==
    IF media_type = "movie" THEN movie_folders ELSE tv_folders

\* /select_artwork.  The form carries artwork_url, media_title, media_type
\* and artwork_type; tmdb_id and directory are what the caller knows besides
\* (the external id and the directory hint), which the handler never reads.
\* media_title = None stands for a form without one of its required fields.
\* found is what the search of lines 835-865 ends with, for what safe_listdir
\* returned to this request.
select_artwork(media_title, media_type, artwork_type, tmdb_id, directory, found, download, io) ==
    LET exact == found.save_dir # NoPath
        fuzzy == FracGe(found.best_similarity, similarity_threshold)
        save_dir == IF exact THEN found.save_dir ELSE found.best_match_dir
        saved == save_artwork_and_thumbnail(files, save_dir, artwork_type,
                                            download)
        patch == update_single_cache_entry(scanCache, thumbCache, saved.files,
                                           media_type, artwork_type, save_dir,
                                           io)
    IN  /\ req = NoReq
        /\ req' = [NoReq EXCEPT !.op = "select_artwork",
                                !.media_title = media_title,
                                !.media_type = media_type,
                                !.artwork_type = artwork_type,
                                !.tmdb_id = tmdb_id,
                                !.directory = directory]
        /\ IF exact \/ fuzzy
           THEN /\ files' = saved.files
                /\ scanCache' = IF saved.saved THEN patch.scan ELSE scanCache
                /\ thumbCache' = IF saved.saved THEN patch.cache ELSE thumbCache
                /\ resp' = [NoResp EXCEPT
                              !.view = "redirect",
                              !.save_dir = save_dir,
                              !.how = IF exact THEN "exact" ELSE "fuzzy",
                              !.saved = saved.saved,
                              !.patched = saved.saved /\ patch.result,
                              !.listed = found.listed,
                              !.best_similarity = found.best_similarity]
           ELSE /\ resp' = [NoResp EXCEPT
                              !.view = "select_directory",
                              !.similar_dirs =
                                 get_close_matches(media_title,
                                     found.possible_dirs, CloseMatchesN,
                                     CloseMatchesCutoff),
                              !.listed = found.listed,
                              !.best_similarity = found.best_similarity]
                /\ UNCHANGED <<files, scanCache, thumbCache>>
        /\ UNCHANGED <<dirs, directoryMapping, now, unavailable, norm, threads>>

\* /select_artwork without one of its required form fields: lines 814-816.
select_artwork_bad_request(media_type, artwork_type, tmdb_id, directory) ==
    /\ req = NoReq
    /\ req' = [NoReq EXCEPT !.op = "select_artwork",
                            !.media_type = media_type,
                            !.artwork_type = artwork_type,
                            !.tmdb_id = tmdb_id,
                            !.directory = directory]
    /\ resp' = [NoResp EXCEPT !.view = "bad_request"]
    /\ UNCHANGED <<dirs, files, directoryMapping, scanCache, thumbCache, now, unavailable, norm, threads>>

\* The first of base_folders whose listing holds selected_directory (0: none).
FolderOfSelected(base_folders, ls, selected_directory) ==
    LET holds == {r \in 1..Len(base_folders) :
                    selected_directory \in Range(ls[base_folders[r]])}
    IN  IF holds = {} THEN 0 ELSE SetMin(holds)

\* /confirm_directory.  media_title = None stands for a form in which
\* selected_directory, media_title or artwork_url is missing or empty.
confirm_directory(selected_directory, media_title, content_type, artwork_type, tmdb_id, download) ==
    /\ req = NoReq
    /\ req' = [NoReq EXCEPT !.op = "confirm_directory",
                            !.media_title = media_title,
                            !.media_type = content_type,
                            !.artwork_type = artwork_type,
                            !.tmdb_id = tmdb_id,
                            !.selected_directory = selected_directory]
    /\ IF media_title = None \/ selected_directory = None
       THEN /\ resp' = [NoResp EXCEPT !.view = "bad_request"]
            /\ UNCHANGED files
       ELSE \E ls \in ListingsUpToOrder(BaseFolders(content_type)) :
              LET base_folders == BaseFolders(content_type)
                  r == FolderOfSelected(base_folders, ls, selected_directory)
                  save_dir == join(base_folders[r], selected_directory)
                  saved == save_artwork_and_thumbnail(files, save_dir,
                                                      artwork_type, download)
              IN  IF r = 0
                  THEN /\ resp' = [NoResp EXCEPT !.view = "not_found"]
                       /\ UNCHANGED files
                  ELSE /\ files' = saved.files
                       /\ resp' = [NoResp EXCEPT
                                     !.view = IF saved.saved THEN "redirect"
                                              ELSE "failed",
                                     !.save_dir = save_dir,
                                     !.how = "selected",
                                     !.saved = saved.saved]
    /\ UNCHANGED <<dirs, directoryMapping, scanCache, thumbCache, now, unavailable, norm, threads>>

\* get(key) of the Mapping Store: a stale entry is deleted by the read.
mapping_get(media_type, tmdb_id) ==
    LET key == MappingKey(media_type, tmdb_id)
        present == key \in DOMAIN directoryMapping
        stale == present /\ ~PathExists(directoryMapping[key])
    IN  /\ req = NoReq
        /\ req' = [NoReq EXCEPT !.op = "mapping_get",
                                !.media_type = media_type,
                                !.tmdb_id = tmdb_id]
        /\ resp' = [NoResp EXCEPT
                      !.view = "mapping_get",
                      !.how = IF stale THEN "stale"
                              ELSE IF present THEN "hit" ELSE "miss",
                      !.save_dir = IF present /\ ~stale
                                   THEN directoryMapping[key] ELSE NoPath]
        /\ directoryMapping' = IF stale THEN MapDel(directoryMapping, key)
                               ELSE directoryMapping
        /\ UNCHANGED <<dirs, files, scanCache, thumbCache, now, unavailable, norm, threads>>

\* set(key, path) of the Mapping Store: overwrites unconditionally.
mapping_set(media_type, tmdb_id, path) ==
    /\ req = NoReq
    /\ directoryMapping' =
          MapPut(directoryMapping, MappingKey(media_type, tmdb_id), path)
    /\ UNCHANGED <<dirs, files, scanCache, thumbCache, now, unavailable, norm, threads,
                 req, resp>>

\* The environment: a media directory is deleted from disk, with its files.
RemoveDirectory(path) ==
    /\ req = NoReq
    /\ PathExists(path)
    /\ dirs' = [dirs EXCEPT ![path[1]] = @ \ {path[2]}]
    /\ files' = {f \in files : f.path # path}
    /\ UNCHANGED <<directoryMapping, scanCache, thumbCache, now, unavailable, norm, threads,
                 req, resp>>

\* The response is delivered: the single process takes the next request.
Return ==
    /\ req # NoReq
    /\ req' = NoReq
    /\ resp' = NoResp
    /\ UNCHANGED <<dirs, files, directoryMapping, scanCache, thumbCache, now, unavailable, norm, threads>>

(***************************************************************************)
(* The libraries a behaviour may start from.                               *)
(***************************************************************************)
Layout(m1, m2, t1) ==
    [r \in Roots |-> CASE r = "M1" -> m1 [] r = "M2" -> m2 [] OTHER -> t1]

\* Two names with one normalized form in one root.
LayoutTie == Layout({"A-b", "ab"}, {"abcde"}, {"ab"})
\* The exact name in the second root, a similar one in the first.
LayoutSecond == Layout({"abc"}, {"ab", "abcde"}, {})
\* The same three names under both movie roots.
LayoutTwice == Layout({"ab", "abc", "abcd"}, {"ab", "abc", "abcd"}, {"abcde"})
\* The worked example of the specification.
LayoutExample == Layout({"Breaking Bad (2008)", "Better Call Saul (2015)"}, {}, {})

\* The paths the Mapping Store is given, and the environment may delete.
MappedPaths == {join("M2", "abcde"), join("T1", "ab")}

\* The most artwork files the media directories hold together.
MaxFiles == 2

InitCommon ==
    /\ files = {}
    /\ directoryMapping = EmptyMap
    /\ scanCache = EmptyMap
    /\ thumbCache = {}
    /\ now = 0
    /\ unavailable = EmptyMap
    /\ norm = NoNorm
    /\ threads = NoThreads
    /\ req = NoReq
    /\ resp = NoResp

\* /select_artwork with a title of titles and a directory hint of hints.
SelectArtworkOf(titles, hints) ==
    \/ \E media_title \in titles, media_type \in MediaTypes :
         \E ls \in Listings(BaseFolders(media_type)) :
           LET found == FindDirectory(BaseFolders(media_type), ls, media_title)
           IN  \E tmdb_id \in ExternalIds \cup {None}, directory \in hints,
                  download \in DownloadOutcomes :
                   /\ select_artwork(media_title, media_type, "poster", tmdb_id,
                                     directory, found, download, "ok")
                   /\ Cardinality(files') <= MaxFiles
    \/ \E media_type \in MediaTypes, tmdb_id \in ExternalIds \cup {None} :
         select_artwork_bad_request(media_type, "poster", tmdb_id, None)

\* /confirm_directory with a selection of selections and a title of titles.
ConfirmDirectoryOf(selections, titles) ==
    \E selected_directory \in selections \cup {None},
       media_title \in titles \cup {None}, content_type \in MediaTypes,
       tmdb_id \in ExternalIds \cup {None}, download \in DownloadOutcomes :
        /\ confirm_directory(selected_directory, media_title, content_type,
                             "poster", tmdb_id, download)
        /\ Cardinality(files') <= MaxFiles

SelectArtwork == SelectArtworkOf(SmallTitles, {None, "abcde"})

ConfirmDirectory == ConfirmDirectoryOf({"abcde", "abcd"}, {"abxy"})

MappingGet ==
    \E media_type \in MediaTypes, tmdb_id \in ExternalIds :
        mapping_get(media_type, tmdb_id)

MappingSet ==
    \E media_type \in MediaTypes, tmdb_id \in ExternalIds, path \in MappedPaths :
        mapping_set(media_type, tmdb_id, path)

RemoveMappedDirectory == \E path \in MappedPaths : RemoveDirectory(path)

(***************************************************************************)
(* Spec: the resolver with the Mapping Store, on the small library.        *)
(***************************************************************************)
Init ==
    /\ dirs \in {LayoutTie, LayoutSecond}
    /\ InitCommon

Next ==
    \/ SelectArtwork
    \/ ConfirmDirectory
    \/ MappingGet
    \/ MappingSet
    \/ RemoveMappedDirectory
    \/ Return

Spec == Init /\ [][Next]_vars

(***************************************************************************)
(* SpecResolve: the resolver alone, also on the library that holds the     *)
(* same names under both movie roots.                                      *)
(***************************************************************************)
InitResolve ==
    /\ dirs \in {LayoutTie, LayoutSecond, LayoutTwice}
    /\ InitCommon

NextResolve ==
    \/ SelectArtwork
    \/ ConfirmDirectory
    \/ Return

SpecResolve == InitResolve /\ [][NextResolve]_vars

(***************************************************************************)
(* SpecExample: the resolver on the worked example of the specification.   *)
(***************************************************************************)
InitExample ==
    /\ dirs = LayoutExample
    /\ InitCommon

SelectArtworkExample ==
    SelectArtworkOf(ExampleTitles, {None, "Breaking Bad (2008)"})

ConfirmDirectoryExample ==
    ConfirmDirectoryOf(ExampleNames, ExampleTitles)

NextExample ==
    \/ SelectArtworkExample
    \/ ConfirmDirectoryExample
    \/ Return

SpecExample == InitExample /\ [][NextExample]_vars

(***************************************************************************)
(* The claims.  A state with req # NoReq is the state in which a handler   *)
(* returns: req is the request it served and resp what it answered.        *)
(***************************************************************************)
Resolving == req.op = "select_artwork" /\ resp.view # "bad_request"

Confirming == req.op = "confirm_directory" /\ resp.view # "bad_request"

ReqKey == MappingKey(req.media_type, req.tmdb_id)

Mapped == req.tmdb_id # None /\ ReqKey \in DOMAIN directoryMapping

Accepted == resp.how \in {"exact", "fuzzy", "selected"}

SameNormalized(x, y) == normalize_title(Spell(x)) = normalize_title(Spell(y))

\* C1: whenever the Mapping Store holds an entry for the request's media kind
\* and external id and the stored path exists, /select_artwork resolves to
\* that stored path, whatever the title.
C1_MappingShortCircuit ==
    (Resolving /\ Mapped /\ PathExists(directoryMapping[ReqKey]))
        => resp.save_dir = directoryMapping[ReqKey]

\* C2: when a request with a known external id returns with an accepted match
\* (exact, fuzzy or manual), the Mapping Store holds the accepted directory
\* under that id.
C2_StickyPerExternalId ==
    (req.op \in {"select_artwork", "confirm_directory"} /\ Accepted
        /\ req.tmdb_id # None)
        => (Mapped /\ directoryMapping[ReqKey] = resp.save_dir)

\* C3: a get of the Mapping Store on an entry whose path no longer exists
\* returns absent and removes the entry; a path it returns exists and is the
\* stored one; the entries of the other keys are left as they were.
C3_SelfHealingRead ==
    [][(req = NoReq /\ req'.op = "mapping_get") =>
         LET key == MappingKey(req'.media_type, req'.tmdb_id)
             present == key \in DOMAIN directoryMapping
             path == resp'.save_dir
         IN  /\ (present /\ ~PathExists(directoryMapping[key]))
                    => (path = NoPath /\ key \notin DOMAIN directoryMapping')
             /\ path # NoPath
                    => /\ path[2] \in dirs'[path[1]]
                       /\ present /\ directoryMapping[key] = path
                       /\ key \in DOMAIN directoryMapping'
                       /\ directoryMapping'[key] = path
             /\ \A k \in DOMAIN directoryMapping \ {key} :
                    k \in DOMAIN directoryMapping'
                    /\ directoryMapping'[k] = directoryMapping[k]
             /\ DOMAIN directoryMapping' \subseteq DOMAIN directoryMapping
      ]_vars

\* C3 happens: a get has removed a stale entry and the other key's is there.
C3_Witness ==
    /\ req.op = "mapping_get"
    /\ resp.how = "stale"
    /\ ReqKey \notin DOMAIN directoryMapping
    /\ DOMAIN directoryMapping # {}

ListedNames == {basename(p) : p \in resp.listed}

\* The raw-string closeness get_close_matches scores a candidate with.
Closeness(x) == RawRatio[x][req.media_title]

\* C4: if a directory the resolver listed has a normalized name equal to the
\* normalized title, the resolver accepts without a disambiguation list a
\* listed directory whose normalized name equals the normalized title.
C4_NormalizedMatchAccepted ==
    (Resolving /\ \E d \in ListedNames : SameNormalized(d, req.media_title))
        => /\ resp.view = "redirect"
           /\ resp.save_dir \in resp.listed
           /\ SameNormalized(basename(resp.save_dir), req.media_title)

\* C4 happens: a title that differs from the directory name in case and
\* punctuation resolves to it, in the second root.
C4_Witness ==
    /\ Resolving
    /\ req.media_title = "A b"
    /\ resp.how = "fuzzy"
    /\ resp.save_dir = join("M2", "ab")
    /\ join("M1", "abc") \in resp.listed

\* The default threshold of the specification.
DefaultThreshold == <<9, 10>>

\* C5: when no hint, mapping or exact match applies, a directory is accepted
\* as a fuzzy match only if no listed directory has a strictly higher
\* similarity to the title and its similarity is at least 0.9.
C5_FuzzyThreshold ==
    (Resolving /\ resp.how = "fuzzy" /\ req.directory = None /\ ~Mapped
        /\ \A d \in ListedNames : ~SameNormalized(d, req.media_title))
        => /\ \A d \in ListedNames :
                 ~FracGt(NormalizedRatio[req.media_title][d],
                         NormalizedRatio[req.media_title][basename(resp.save_dir)])
           /\ FracGe(NormalizedRatio[req.media_title][basename(resp.save_dir)],
                     DefaultThreshold)

\* C6: the disambiguation list holds at most 5 names, each the name of a
\* listed directory with a closeness to the title of at least 0.5, from the
\* closest to the least close.
C6_ManualFallbackList ==
    (Resolving /\ resp.view = "select_directory")
        => LET similar_dirs == resp.similar_dirs
           IN  /\ Len(similar_dirs) <= 5
               /\ \A i \in DOMAIN similar_dirs :
                     /\ similar_dirs[i] \in ListedNames
                     /\ FracGe(Closeness(similar_dirs[i]), <<1, 2>>)
               /\ \A i, j \in DOMAIN similar_dirs :
                     i < j => ~FracGt(Closeness(similar_dirs[j]),
                                      Closeness(similar_dirs[i]))

\* C6 happens: six listed names are close to the title and the list holds
\* five, of more than one closeness.
C6_Witness ==
    /\ Resolving
    /\ resp.view = "select_directory"
    /\ Len(resp.similar_dirs) = 5
    /\ Cardinality({p \in resp.listed :
                       FracGe(Closeness(basename(p)), <<1, 2>>)}) = 6
    /\ FracGt(Closeness(resp.similar_dirs[1]), Closeness(resp.similar_dirs[5]))

\* C7: the directory selected in /confirm_directory is accepted whatever it
\* is, and recorded in the Mapping Store for the external id.
C7_ManualSelectionFinal ==
    Confirming
        => /\ resp.how = "selected"
           /\ basename(resp.save_dir) = req.selected_directory
           /\ req.tmdb_id # None
                 => (Mapped /\ directoryMapping[ReqKey] = resp.save_dir)

\* C8: if the request carries a directory hint and a root of its media kind
\* has a child of that name, the request resolves to that child.
C8_HintMatchFirst ==
    (Resolving /\ req.directory # None
        /\ \E r \in Range(BaseFolders(req.media_type)) :
               req.directory \in dirs[r])
        => /\ basename(resp.save_dir) = req.directory
           /\ PathExists(resp.save_dir)

\* The request of the worked example: /select_artwork for title, with both
\* directories of the example listed.
ExampleRequest(title) ==
    /\ Resolving
    /\ req.media_title = title
    /\ ListedNames = ExampleNames

ExampleSimilarity(title) == NormalizedRatio[title]["Breaking Bad (2008)"]

ResolvesToBreakingBad ==
    /\ resp.view = "redirect"
    /\ resp.save_dir = join("M1", "Breaking Bad (2008)")

\* C9 as stated: for the title "Breaking Bad" the similarity to
\* "Breaking Bad (2008)" is at least 0.9 and the request resolves to it.
C9_ReachesDefaultThreshold ==
    ExampleRequest("Breaking Bad")
        => /\ FracGe(ExampleSimilarity("Breaking Bad"), DefaultThreshold)
           /\ ResolvesToBreakingBad

\* C9, amended: for the title "Breaking Bad" the similarity to
\* "Breaking Bad (2008)" is 22/26: below 0.9 and at least the 0.8 of
\* select_artwork, and the request resolves to "Breaking Bad (2008)".
C9_ResolvesBelowDefaultThreshold ==
    ExampleRequest("Breaking Bad")
        => /\ resp.best_similarity = <<22, 26>>
           /\ resp.best_similarity = ExampleSimilarity("Breaking Bad")
           /\ ~FracGe(resp.best_similarity, DefaultThreshold)
           /\ FracGe(resp.best_similarity, <<8, 10>>)
           /\ resp.how = "fuzzy"
           /\ ResolvesToBreakingBad

\* C9 happens: the request for "Breaking Bad" has resolved and the artwork
\* is in the directory.
C9_Witness ==
    /\ ExampleRequest("Breaking Bad")
    /\ resp.saved
    /\ \E f \in files : f.path = join("M1", "Breaking Bad (2008)")

\* C10 as stated: for the title "Breaking Bod" the similarity to
\* "Breaking Bad (2008)" is greater than 0.9 and the request resolves to it.
C10_TypoResolves ==
    ExampleRequest("Breaking Bod")
        => /\ FracGt(ExampleSimilarity("Breaking Bod"), DefaultThreshold)
           /\ ResolvesToBreakingBad

\* C10, amended: for the title "Breaking Bod" the similarity to
\* "Breaking Bad (2008)" is 20/26, below 0.8: the request does not resolve,
\* no file is written, and the disambiguation list is "Breaking Bad (2008)"
\* alone.
C10_TypoIsNotResolved ==
    ExampleRequest("Breaking Bod")
        => /\ resp.best_similarity = <<20, 26>>
           /\ resp.best_similarity = ExampleSimilarity("Breaking Bod")
           /\ ~FracGe(resp.best_similarity, <<8, 10>>)
           /\ resp.view = "select_directory"
           /\ resp.save_dir = NoPath
           /\ resp.similar_dirs = <<"Breaking Bad (2008)">>

\* C10 happens: the request for "Breaking Bod" has returned the list.
C10_Witness ==
    /\ ExampleRequest("Breaking Bod")
    /\ resp.similar_dirs # <<>>

\* C11 as stated: for the title "Saul" nothing is accepted and the
\* disambiguation list holds both directory names, the closest first.
C11_WeakQueryListsBoth ==
    ExampleRequest("Saul")
        => /\ resp.view = "select_directory"
           /\ Range(resp.similar_dirs) = ExampleNames
           /\ \A i, j \in DOMAIN resp.similar_dirs :
                 i < j => ~FracGt(Closeness(resp.similar_dirs[j]),
                                  Closeness(resp.similar_dirs[i]))

\* C11, amended: for the title "Saul" nothing is accepted (the best
\* similarity is 8/22) and no file is written, and the disambiguation list
\* is empty: the closeness of both names to "Saul" is below 0.5.
C11_WeakQueryListsNone ==
    ExampleRequest("Saul")
        => /\ resp.view = "select_directory"
           /\ resp.save_dir = NoPath
           /\ resp.best_similarity = <<8, 22>>
           /\ ~FracGe(resp.best_similarity, <<8, 10>>)
           /\ \A d \in ExampleNames : ~FracGe(Closeness(d), <<1, 2>>)
           /\ resp.similar_dirs = <<>>

\* C11 happens: the request for "Saul" has returned, both names listed.
C11_Witness ==
    /\ ExampleRequest("Saul")
    /\ resp.view = "select_directory"
    /\ resp.listed = {join("M1", d) : d \in ExampleNames}

(***************************************************************************)
(* SpecNormalize: normalize_title on titles over a small alphabet.  A      *)
(* behaviour draws a title t1, rewrites a copy t2 of it by changes of      *)
(* case, punctuation and whitespace only, and normalizes both.             *)
(***************************************************************************)
TitleChars == {"a", "A", "b", "1", " ", "-"}

\* The longest title.
MaxTitleLen == 3

Titles == UNION {[1..n -> TitleChars] : n \in 0..MaxTitleLen}

IsLetter(c) == c \in Range(UpperChars) \cup Range(LowerChars)

IsMark(c) == ~IsLetter(c) /\ c \notin Range(DigitChars)

\* The letter c in the other case.
OtherCase(c) ==
    IF c \in Range(UpperChars) THEN LowerChars[IndexOf(UpperChars, c)]
    ELSE UpperChars[IndexOf(LowerChars, c)]

InitNormalize ==
    /\ dirs = LayoutExample
    /\ files = {}
    /\ directoryMapping = EmptyMap
    /\ scanCache = EmptyMap
    /\ thumbCache = {}
    /\ now = 0
    /\ unavailable = EmptyMap
    /\ \E t \in Titles : norm = [NoNorm EXCEPT !.t1 = t, !.t2 = t]
    /\ threads = NoThreads
    /\ req = NoReq
    /\ resp = NoResp

\* A letter of t2 changes case.
ChangeCase ==
    \E i \in DOMAIN norm.t2 :
        /\ IsLetter(norm.t2[i])
        /\ OtherCase(norm.t2[i]) \in TitleChars
        /\ norm' = [norm EXCEPT !.t2[i] = OtherCase(@), !.k2 = <<"?">>]

\* A punctuation mark or a space is put into t2.
InsertMark ==
    \E i \in 0..Len(norm.t2), c \in TitleChars :
        /\ IsMark(c)
        /\ Len(norm.t2) < MaxTitleLen
        /\ norm' = [norm EXCEPT
                      !.t2 = SubSeq(@, 1, i) \o <<c>> \o SubSeq(@, i + 1, Len(@)),
                      !.k2 = <<"?">>]

\* A punctuation mark or a space is taken out of t2.
DeleteMark ==
    \E i \in DOMAIN norm.t2 :
        /\ IsMark(norm.t2[i])
        /\ norm' = [norm EXCEPT
                      !.t2 = SubSeq(@, 1, i - 1) \o SubSeq(@, i + 1, Len(@)),
                      !.k2 = <<"?">>]

\* normalize_title is applied to both titles.
Normalize ==
    /\ norm.k2 = <<"?">>
    /\ norm' = [norm EXCEPT !.k1 = normalize_title(norm.t1),
                            !.k2 = normalize_title(norm.t2)]

NextNormalize ==
    /\ \/ ChangeCase
       \/ InsertMark
       \/ DeleteMark
       \/ Normalize
    /\ UNCHANGED <<dirs, files, directoryMapping, scanCache, thumbCache, now,
                   unavailable, threads, req, resp>>

SpecNormalize == InitNormalize /\ [][NextNormalize]_vars

\* C20: two titles that differ only by case, punctuation and whitespace have
\* the same normalized key, and a key holds only characters of [a-z0-9].
C20_NormalizeInsensitive ==
    norm.k2 # <<"?">>
        => /\ norm.k1 = norm.k2
           /\ \A c \in Range(norm.k1) \cup Range(norm.k2) :
                 c \in Range(LowerChars) \cup Range(DigitChars)

\* C20 happens: two titles that differ in case and in punctuation have been
\* given the key "ab".
C20_Witness ==
    /\ norm.t1 = <<"A", "b">>
    /\ norm.t2 = <<"a", "-", "b">>
    /\ norm.k2 = <<"a", "b">>

(***************************************************************************)
(* The unavailability record: load_unavailable_data,                       *)
(* save_unavailable_data, is_artwork_unavailable, mark_artwork_unavailable *)
(* and /api/toggle_unavailable.  The document maps <<directory, artwork    *)
(* type>> to the flag.                                                     *)
(***************************************************************************)
\* What a write of a JSON document may do: succeed, fail before the file is
\* opened (the document stays), or fail after open(..., 'w') has truncated
\* it (what is left does not parse).
SaveOutcomes == {"ok", "open_error", "write_error"}

\* load_unavailable_data: {} when the file is missing or cannot be read or
\* parsed.
load_unavailable_data(store, load_ok) == IF load_ok THEN store ELSE EmptyMap

\* save_unavailable_data: the document afterwards and the function's result.
\* A document that does not parse reads as {}.
save_unavailable_data(store, data, save) ==
    [store |-> CASE save = "ok" -> data
                 [] save = "open_error" -> store
                 [] OTHER -> EmptyMap,
     ok |-> save = "ok"]

\* unavailable_data.get(directory, {}).get(artwork_type, False)
FlagOf(data, directory, artwork_type) ==
    IF <<directory, artwork_type>> \in DOMAIN data
    THEN data[<<directory, artwork_type>>] ELSE FALSE

is_artwork_unavailable(store, directory, artwork_type, load_ok) ==
    FlagOf(load_unavailable_data(store, load_ok), directory, artwork_type)

mark_artwork_unavailable(store, directory, artwork_type, value, load_ok, save) ==
    save_unavailable_data(store,
        MapPut(load_unavailable_data(store, load_ok),
               <<directory, artwork_type>>, value),
        save)

\* The body of toggle_unavailable for a well-formed request: the document
\* afterwards, whether the save succeeded and the status it computed.
ToggleResult(store, directory, artwork_type, load1, load2, save) ==
    LET current_status == is_artwork_unavailable(store, directory,
                                                 artwork_type, load1)
        new_status == ~current_status
        marked == mark_artwork_unavailable(store, directory, artwork_type,
                                           new_status, load2, save)
    IN  [store |-> marked.store, success |-> marked.ok,
         unavailable |-> new_status]

\* POST /api/toggle_unavailable.  directory = None stands for a body without
\* directory or artwork_type; an artwork_type outside ARTWORK_TYPES is
\* refused as well.
toggle_unavailable(directory, artwork_type, load1, load2, save) ==
    LET t == ToggleResult(unavailable, directory, artwork_type, load1, load2,
                          save)
    IN  /\ req = NoReq
        /\ req' = [NoReq EXCEPT !.op = "toggle_unavailable",
                                !.directory = directory,
                                !.artwork_type = artwork_type]
        /\ IF directory = None \/ artwork_type \notin ARTWORK_TYPES
           THEN /\ resp' = [NoResp EXCEPT !.view = "bad_request"]
                /\ UNCHANGED unavailable
           ELSE /\ unavailable' = t.store
                /\ resp' = [NoResp EXCEPT
                              !.view = IF t.success THEN "json" ELSE "failed",
                              !.success = t.success,
                              !.unavailable = t.success /\ t.unavailable]
        /\ UNCHANGED <<dirs, files, directoryMapping, scanCache, thumbCache,
                       now, norm, threads>>

\* select_movie and select_tv when the provider has no artwork of the type
\* and the request carries a directory: lines 590-594.
select_media_no_artwork(directory, artwork_type, load_ok, save) ==
    /\ req = NoReq
    /\ req' = [NoReq EXCEPT !.op = "select_media",
                            !.directory = directory,
                            !.artwork_type = artwork_type]
    /\ unavailable' = mark_artwork_unavailable(unavailable, directory,
                                               artwork_type, TRUE, load_ok,
                                               save).store
    /\ resp' = [NoResp EXCEPT !.view = "redirect"]
    /\ UNCHANGED <<dirs, files, directoryMapping, scanCache, thumbCache, now,
                   norm, threads>>

(***************************************************************************)
(* SpecToggle: the unavailability record alone.                            *)
(***************************************************************************)
ToggleDirectories == {"ab", "abc"}

ToggleTypes == {"poster", "logo"}

InitToggle ==
    /\ dirs = LayoutTie
    /\ InitCommon

ToggleUnavailable ==
    \E directory \in ToggleDirectories \cup {None},
       artwork_type \in ToggleTypes \cup {"banner"},
       load1 \in BOOLEAN, load2 \in BOOLEAN, save \in SaveOutcomes :
        toggle_unavailable(directory, artwork_type, load1, load2, save)

SelectMediaNoArtwork ==
    \E directory \in ToggleDirectories, artwork_type \in ToggleTypes,
       load_ok \in BOOLEAN, save \in SaveOutcomes :
        select_media_no_artwork(directory, artwork_type, load_ok, save)

NextToggle ==
    \/ ToggleUnavailable
    \/ SelectMediaNoArtwork
    \/ Return

SpecToggle == InitToggle /\ [][NextToggle]_vars

\* C14: a toggle that succeeds returns the flag it has stored, and a second
\* successful toggle of the same directory and artwork type, with no write
\* in between, leaves the flag as it was before the first (absent counting
\* as false).
C14_ToggleInvolution ==
    [][(req = NoReq /\ req'.op = "toggle_unavailable" /\ resp'.success) =>
         LET directory == req'.directory
             artwork_type == req'.artwork_type
         IN  /\ resp'.unavailable = FlagOf(unavailable', directory, artwork_type)
             /\ \A load1 \in BOOLEAN, load2 \in BOOLEAN, save \in SaveOutcomes :
                  LET second == ToggleResult(unavailable', directory,
                                             artwork_type, load1, load2, save)
                  IN  second.success
                         => /\ FlagOf(second.store, directory, artwork_type)
                                  = FlagOf(unavailable, directory, artwork_type)
                            /\ second.unavailable
                                  = FlagOf(second.store, directory, artwork_type)
      ]_vars

(***************************************************************************)
(* The directory scan: safe_listdir as get_artwork_data calls it,          *)
(* load_scan_cache, save_scan_cache, get_artwork_data, the pages /movies   *)
(* and /tv, and /refresh.  A scan cache document is [media_list, total,    *)
(* whole]; whole = FALSE is what a failed write leaves, which json.load    *)
(* refuses.                                                                *)
(***************************************************************************)
\* The os.listdir calls one safe_listdir call makes before it gives up:
\* one call inside try, no loop around it.
ListdirAttemptsRetry == 2 * 4

ListdirAttempts == 1

\* The most consecutive failures of os.listdir on one root.
MaxFails == 1

\* safe_listdir on a root on which os.listdir fails the first fails times:
\* the os.listdir calls made, and what may be returned.
safe_listdir_calls(fails) ==
    IF fails >= ListdirAttempts THEN ListdirAttempts ELSE fails + 1

safe_listdir_returns(path, fails) ==
    IF fails >= ListdirAttempts THEN {<<>>} ELSE Arrangements(dirs[path])

\* Lines 325-329 for one root, of which the scan finds l: whether
\* safe_exists(base_folder) holds (up), how often os.listdir fails (fails)
\* and the names it returns (names).  The directories the loop of line 331
\* gets.
DirectoriesOf(base_folder, l) ==
    IF ~l.up \/ l.fails >= ListdirAttempts THEN <<>> ELSE l.names

\* The names line 332 skips, in lower case.
DenyList == {Spell("@eadir"), Spell("#recycle")}

IsDenied(media_dir) == Lower(Spell(media_dir)) \in DenyList

\* sorted(directories): by code point.
RECURSIVE InsertName(_, _)
InsertName(x, s) ==
    IF s = <<>> THEN <<x>>
    ELSE IF Less[x][Head(s)] THEN <<x>> \o s
    ELSE <<Head(s)>> \o InsertName(x, Tail(s))

RECURSIVE SortedNames(_)
SortedNames(s) ==
    IF s = <<>> THEN <<>> ELSE InsertName(Head(s), SortedNames(Tail(s)))

\* strip_leading_the, applied to the lower-cased title.
strip_leading_the(title) ==
    IF Len(title) >= 4 /\ Lower(SubSeq(title, 1, 4)) = <<"t", "h", "e", " ">>
    THEN SubSeq(title, 5, Len(title))
    ELSE title

SortKey(item) == strip_leading_the(Lower(Spell(item.title)))

\* sorted(media_list, key=...): stable, so an item goes behind the items of
\* equal key that came before it.
RECURSIVE InsertByKey(_, _)
InsertByKey(x, s) ==
    IF s = <<>> THEN <<x>>
    ELSE IF StrLess(SortKey(x), SortKey(Head(s))) THEN <<x>> \o s
    ELSE <<Head(s)>> \o InsertByKey(x, Tail(s))

RECURSIVE SortByKey(_)
SortByKey(s) ==
    IF s = <<>> THEN <<>>
    ELSE InsertByKey(s[Len(s)], SortByKey(SubSeq(s, 1, Len(s) - 1)))

\* The extensions the loop of lines 344-371 visits: up to the first whose
\* full artwork exists, where it breaks.
VisitedExts(fs, media_path, prefix) ==
    LET e == FirstArtworkExt(fs, media_path, prefix)
    IN  1..(IF e = 0 THEN Len(Extensions) ELSE e)

\* The visited extensions whose thumbnail exists.
ThumbExts(fs, media_path, prefix) ==
    {i \in VisitedExts(fs, media_path, prefix) :
        FileExists(fs, media_path, FileName(prefix, TRUE, Extensions[i]))}

\* The copy_to_cache calls of lines 348-352, extension by extension from i.
RECURSIVE CopyThumbs(_, _, _, _, _, _)
CopyThumbs(tc, fs, media_path, prefix, i, io) ==
    IF i > Len(Extensions) THEN tc
    ELSE LET thumb == FileName(prefix, TRUE, Extensions[i])
             next == IF i \in ThumbExts(fs, media_path, prefix)
                     THEN copy_to_cache(tc, fs, media_path, thumb,
                                        basename(media_path), thumb, io).cache
                     ELSE tc
         IN  CopyThumbs(next, fs, media_path, prefix, i + 1, io)

\* has_poster, has_logo, has_backdrop: lines 374-384.
HasThumb(fs, media_path, prefix) ==
    \E i \in 1..Len(Extensions) :
        FileExists(fs, media_path, FileName(prefix, TRUE, Extensions[i]))

\* The item of lines 394-409 for one media directory.  artwork_dimensions,
\* artwork_last_modified and clean_id, which are only displayed, are left
\* out.
ScanItem(fs, store, media_path, prefix, flags_ok) ==
    LET media_dir == basename(media_path)
        e == FirstArtworkExt(fs, media_path, prefix)
        thumbs == ThumbExts(fs, media_path, prefix)
        artwork_thumb ==
            IF thumbs = {} THEN None
            ELSE get_cached_artwork_url(media_dir,
                     FileName(prefix, TRUE, Extensions[SetMax(thumbs)]))
    IN  [title |-> media_dir,
         artwork |-> IF e = 0 THEN None
                     ELSE <<media_dir, FileName(prefix, FALSE, Extensions[e])>>,
         artwork_thumb |-> artwork_thumb,
         has_artwork |-> artwork_thumb # None,
         has_poster |-> HasThumb(fs, media_path, "poster"),
         has_logo |-> HasThumb(fs, media_path, "logo"),
         has_backdrop |-> HasThumb(fs, media_path, "backdrop"),
         poster_unavailable |->
            is_artwork_unavailable(store, media_dir, "poster", flags_ok),
         logo_unavailable |->
            is_artwork_unavailable(store, media_dir, "logo", flags_ok),
         backdrop_unavailable |->
            is_artwork_unavailable(store, media_dir, "backdrop", flags_ok),
         tmdb_id |-> None]

\* The loop of line 331 over one root's sorted directories, from the k-th:
\* st is [media_list, cache].
RECURSIVE ScanRoot(_, _, _, _, _, _, _, _, _)
ScanRoot(st, fs, store, base_folder, directories, k, prefix, io, flags_ok) ==
    IF k > Len(directories) THEN st
    ELSE LET media_dir == directories[k]
             media_path == join(base_folder, media_dir)
             next ==
                IF IsDenied(media_dir) THEN st
                ELSE [media_list |->
                         Append(st.media_list,
                                ScanItem(fs, store, media_path, prefix,
                                         flags_ok)),
                      cache |-> CopyThumbs(st.cache, fs, media_path, prefix,
                                           1, io)]
         IN  ScanRoot(next, fs, store, base_folder, directories, k + 1,
                      prefix, io, flags_ok)

\* The loop of line 323 over the roots, from the r-th.
RECURSIVE ScanRoots(_, _, _, _, _, _, _, _, _)
ScanRoots(st, fs, store, base_folders, r, lst, prefix, io, flags_ok) ==
    IF r > Len(base_folders) THEN st
    ELSE LET base_folder == base_folders[r]
             directories ==
                SortedNames(DirectoriesOf(base_folder, lst[base_folder]))
         IN  ScanRoots(ScanRoot(st, fs, store, base_folder, directories, 1,
                                prefix, io, flags_ok),
                       fs, store, base_folders, r + 1, lst, prefix, io,
                       flags_ok)

\* The roots that exist and whose listing failed: safe_listdir has logged
\* the error (lines 19-20) and returned [].
FailedRoots(base_folders, lst) ==
    {base_folder \in Range(base_folders) :
        /\ lst[base_folder].up
        /\ lst[base_folder].fails >= ListdirAttempts}

\* The os.listdir calls of one scan.
RECURSIVE ScanCalls(_, _, _)
ScanCalls(base_folders, r, lst) ==
    IF r > Len(base_folders) THEN 0
    ELSE (IF lst[base_folders[r]].up
          THEN safe_listdir_calls(lst[base_folders[r]].fails) ELSE 0)
         + ScanCalls(base_folders, r + 1, lst)

\* load_scan_cache: (media_list, total), or found = FALSE for (None, None).
load_scan_cache(sc, media_type, artwork_type, load_ok) ==
    LET key == <<media_type, artwork_type>>
    IN  IF key \in DOMAIN sc /\ load_ok /\ sc[key].whole
        THEN [found |-> TRUE, media_list |-> sc[key].media_list,
              total |-> sc[key].total]
        ELSE [found |-> FALSE, media_list |-> <<>>, total |-> 0]

\* A save_scan_cache that writes nothing.
save_scan_cache_skipped(sc, media_type, artwork_type, media_list, total, save) == sc

\* save_scan_cache: the scan cache afterwards.
save_scan_cache(sc, media_type, artwork_type, media_list, total, save) ==
    LET key == <<media_type, artwork_type>>
    IN  CASE save = "ok" ->
               MapPut(sc, key, [media_list |-> media_list, total |-> total,
                                whole |-> TRUE])
          [] save = "open_error" -> sc
          [] OTHER ->
               MapPut(sc, key, [media_list |-> <<>>, total |-> 0,
                                whole |-> FALSE])

\* get_artwork_data(base_folders, artwork_type) with use_cache = True.
\* Returns what the caller gets, the two caches afterwards, whether the
\* scan cache answered and the os.listdir calls made.
get_artwork_data(sc, tc, fs, store, base_folders, artwork_type, lst, load_ok, io, flags_ok, save) ==
    LET media_type == IF base_folders = movie_folders THEN "movie" ELSE "tv"
        cached == load_scan_cache(sc, media_type, artwork_type, load_ok)
        scanned == ScanRoots([media_list |-> <<>>, cache |-> tc], fs, store,
                             base_folders, 1, lst, file_prefix(artwork_type),
                             io, flags_ok)
        media_list == SortByKey(scanned.media_list)
        total_count == Len(media_list)
    IN  IF cached.found
        THEN [media_list |-> cached.media_list, total |-> cached.total,
              scan |-> sc, cache |-> tc, hit |-> TRUE, calls |-> 0,
              failed |-> {}]
        ELSE [media_list |-> media_list, total |-> total_count,
              scan |-> save_scan_cache(sc, media_type, artwork_type,
                                       media_list, total_count, save),
              cache |-> scanned.cache, hit |-> FALSE,
              calls |-> ScanCalls(base_folders, 1, lst),
              failed |-> FailedRoots(base_folders, lst)]

\* /movies/<artwork_type> (index) and /tv/<artwork_type> (tv_shows).
collection_page(media_type, artwork_type, lst, load_ok, io, flags_ok, save) ==
    LET got == get_artwork_data(scanCache, thumbCache, files, unavailable,
                                BaseFolders(media_type), artwork_type, lst,
                                load_ok, io, flags_ok, save)
    IN  /\ req = NoReq
        /\ req' = [NoReq EXCEPT !.op = "collection_page",
                                !.media_type = media_type,
                                !.artwork_type = artwork_type,
                                !.load_ok = load_ok,
                                !.save = save]
        /\ scanCache' = got.scan
        /\ thumbCache' = got.cache
        /\ resp' = [NoResp EXCEPT !.view = "collection",
                                  !.how = IF got.hit THEN "hit" ELSE "miss",
                                  !.media_list = got.media_list,
                                  !.total = got.total,
                                  !.calls = got.calls,
                                  !.failed = got.failed]
        /\ UNCHANGED <<dirs, files, directoryMapping, now, unavailable, norm, threads>>

\* /refresh.  shutil.rmtree either removes the cache directory or raises
\* part way, leaving kept_scan and kept_cache behind; the handler answers
\* the same in both cases.
refresh(rmtree_ok, kept_scan, kept_cache) ==
    /\ req = NoReq
    /\ req' = [NoReq EXCEPT !.op = "refresh"]
    /\ scanCache' = IF rmtree_ok THEN EmptyMap
                    ELSE [k \in kept_scan |-> scanCache[k]]
    /\ thumbCache' = IF rmtree_ok THEN {} ELSE kept_cache
    /\ resp' = [NoResp EXCEPT !.view = "redirect", !.success = TRUE]
    /\ UNCHANGED <<dirs, files, directoryMapping, now, unavailable, norm, threads>>

(***************************************************************************)
(* Single calls of copy_to_cache and safe_listdir, and the environment of  *)
(* the caches: thumbnails appear in the media directories with the         *)
(* modification time their writer gave them, and the local clock advances. *)
(***************************************************************************)
\* copy_to_cache(join(source_dir, filename), basename(source_dir), filename)
\* as get_artwork_data calls it.  The try of lines 93-116 covers the whole
\* body: nothing is raised to the caller.
ensure_thumbnail(source_dir, filename, io) ==
    LET copied == copy_to_cache(thumbCache, files, source_dir, filename,
                                basename(source_dir), filename, io)
    IN  /\ req = NoReq
        /\ req' = [NoReq EXCEPT !.op = "copy_to_cache",
                                !.source = source_dir,
                                !.filename = filename,
                                !.io = io]
        /\ thumbCache' = copied.cache
        /\ resp' = [NoResp EXCEPT !.view = "returned",
                                  !.updated = copied.updated]
        /\ UNCHANGED <<dirs, files, directoryMapping, scanCache, now,
                       unavailable, norm, threads>>

\* safe_listdir(base_folder) on a root on which os.listdir fails the first
\* fails times and would return listing otherwise.  OSError and
\* PermissionError are caught: nothing is raised to the caller.
list_directory(base_folder, fails, listing) ==
    /\ req = NoReq
    /\ listing \in Arrangements(dirs[base_folder])
    /\ req' = [NoReq EXCEPT !.op = "safe_listdir",
                            !.directory = base_folder,
                            !.fails = fails]
    /\ \E returned \in safe_listdir_returns(base_folder, fails) :
         /\ returned \in {<<>>, listing}
         /\ resp' = [NoResp EXCEPT !.view = "returned",
                                   !.listing = returned,
                                   !.calls = safe_listdir_calls(fails)]
    /\ UNCHANGED <<dirs, files, directoryMapping, scanCache, thumbCache, now,
                   unavailable, norm, threads>>

\* The latest time of the clock and of a modification time.
MaxClock == 1

\* The environment writes (or rewrites) a thumbnail in a media directory;
\* mtime is what the writer's clock says, which need not be the local one.
place_thumbnail(path, filename, mtime) ==
    /\ req = NoReq
    /\ PathExists(path)
    /\ files' = {f \in files : ~(f.path = path /\ f.name = filename)}
                \cup {[path |-> path, name |-> filename, mtime |-> mtime]}
    /\ Cardinality(files') <= MaxFiles
    /\ UNCHANGED <<dirs, directoryMapping, scanCache, thumbCache, now,
                   unavailable, norm, threads, req, resp>>

\* The local clock advances.
Tick ==
    /\ req = NoReq
    /\ now < MaxClock
    /\ now' = now + 1
    /\ UNCHANGED <<dirs, files, directoryMapping, scanCache, thumbCache,
                   unavailable, norm, threads, req, resp>>

\* The library of the cache specifications: a housekeeping folder beside a
\* media directory in the first root.
LayoutCache == Layout({"ab", "#Recycle"}, {"abc"}, {})

\* The thumbnails the environment writes.
ThumbPaths == {join("M1", "ab"), join("M2", "abc")}

PosterThumb == FileName("poster", TRUE, "jpg")

(***************************************************************************)
(* SpecCache: the artwork cache and the directory listing, call by call.   *)
(***************************************************************************)
InitCache ==
    /\ dirs = LayoutCache
    /\ InitCommon

EnsureThumbnail ==
    \E source_dir \in ThumbPaths, io \in CopyOutcomes :
        ensure_thumbnail(source_dir, PosterThumb, io)

ListDirectory ==
    \E base_folder \in Roots, fails \in 0..MaxFails :
        \E listing \in Arrangements(dirs[base_folder]) :
            list_directory(base_folder, fails, listing)

PlaceThumbnail ==
    \E path \in ThumbPaths, mtime \in 0..MaxClock :
        place_thumbnail(path, PosterThumb, mtime)

NextCache ==
    \/ EnsureThumbnail
    \/ ListDirectory
    \/ PlaceThumbnail
    \/ Tick
    \/ Return

SpecCache == InitCache /\ [][NextCache]_vars

(***************************************************************************)
(* SpecScan: the collection pages, /refresh and /select_artwork over the   *)
(* scan cache and the artwork cache, the clock standing still.             *)
(***************************************************************************)
InitScan ==
    /\ dirs = LayoutCache
    /\ InitCommon

\* What a scan of the movie roots finds: each root is missing, cannot be
\* listed, or lists its names.  sorted(directories) makes the order of a
\* listing immaterial, so one arrangement stands for each root.
MovieListing(outcome) ==
    [r \in Range(movie_folders) |->
        [up |-> outcome[r] # "missing",
         fails |-> IF outcome[r] = "fails" THEN MaxFails ELSE 0,
         names |-> CHOOSE a \in Arrangements(dirs[r]) : TRUE]]

\* /movies/poster.  A hit returns before anything but the scan cache is
\* read, so the other outcomes are drawn for a miss only.
CollectionPage ==
    \E load_ok \in BOOLEAN :
        IF load_scan_cache(scanCache, "movie", "poster", load_ok).found
        THEN collection_page("movie", "poster",
                             MovieListing([r \in Range(movie_folders) |-> "lists"]),
                             load_ok, "ok", TRUE, "ok")
        ELSE \E outcome \in [Range(movie_folders) -> {"missing", "fails", "lists"}],
                io \in CopyOutcomes, flags_ok \in BOOLEAN,
                save \in SaveOutcomes :
                 collection_page("movie", "poster", MovieListing(outcome),
                                 load_ok, io, flags_ok, save)

Refresh ==
    \E rmtree_ok \in BOOLEAN, kept_scan \in SUBSET DOMAIN scanCache,
       kept_cache \in SUBSET thumbCache :
        refresh(rmtree_ok, kept_scan, kept_cache)

\* /select_artwork for the poster of a movie, with a title of CacheTitles,
\* both roots listing their names.  No two names of this library are close
\* to one title, so the order of a listing does not show.
SelectArtworkCache ==
    \E media_title \in CacheTitles :
        LET ls == MovieListing([r \in Range(movie_folders) |-> "lists"])
            found == FindDirectory(movie_folders,
                                   [r \in Range(movie_folders) |-> ls[r].names],
                                   media_title)
        IN  \E download \in DownloadOutcomes :
              /\ select_artwork(media_title, "movie", "poster", None, None,
                                found, download, "ok")
              /\ Cardinality(files') <= MaxFiles

\* /confirm_directory for the poster of a movie, the user having picked the
\* directory M1/ab.
ConfirmDirectoryCache ==
    \E download \in DownloadOutcomes :
        /\ confirm_directory("ab", "ab", "movie", "poster", None, download)
        /\ Cardinality(files') <= MaxFiles

\* The environment writes the poster thumbnail of M1/ab.
PlaceThumbnailNow == place_thumbnail(join("M1", "ab"), PosterThumb, now)

NextScan ==
    \/ CollectionPage
    \/ Refresh
    \/ SelectArtworkCache
    \/ ConfirmDirectoryCache
    \/ PlaceThumbnailNow
    \/ Return

SpecScan == InitScan /\ [][NextScan]_vars

(***************************************************************************)
(* Claims about the scan cache, the artwork cache and the listing.         *)
(***************************************************************************)
Scanning == req.op = "collection_page"

ScanKey == <<req.media_type, req.artwork_type>>

\* The positions of the scan cache document at key whose item is the
\* directory named name.
ItemsOf(key, name) ==
    {i \in 1..Len(scanCache[key].media_list) :
        scanCache[key].media_list[i].title = name}

\* C12: when /select_artwork has downloaded artwork of a kind into the
\* directory of an item of the written scan cache of that kind, the patch
\* of the scan cache succeeds and the item's artwork-presence is true
\* afterwards.
C12_PatchAfterDownload ==
    (/\ Resolving
     /\ resp.saved
     /\ ScanKey \in DOMAIN scanCache
     /\ scanCache[ScanKey].whole
     /\ ItemsOf(ScanKey, basename(resp.save_dir)) # {})
        => /\ resp.patched
           /\ \A i \in ItemsOf(ScanKey, basename(resp.save_dir)) :
                scanCache[ScanKey].media_list[i].has_artwork

\* C22: when a download has succeeded, whether the directory was matched
\* exactly, matched by similarity or picked by the user, the item of that
\* directory in the written scan cache of that kind reports its artwork as
\* present when the request returns.
C22_EveryDownloadPatches ==
    (/\ req.op \in {"select_artwork", "confirm_directory"}
     /\ resp.how \in {"exact", "fuzzy", "selected"}
     /\ resp.saved
     /\ ScanKey \in DOMAIN scanCache
     /\ scanCache[ScanKey].whole)
        => \A i \in ItemsOf(ScanKey, basename(resp.save_dir)) :
              scanCache[ScanKey].media_list[i].has_artwork

\* The directories of a root that a scan makes items of.
Scannable(base_folder) == {d \in dirs[base_folder] : ~IsDenied(d)}

\* C23: when the listing of an existing root that holds media directories
\* has failed during a full scan, the result of that scan, in which the
\* root has no items, is not stored as the scan cache entry.
C23_FailedListingNotStored ==
    (/\ Scanning
     /\ resp.how = "miss"
     /\ \E base_folder \in resp.failed : Scannable(base_folder) # {})
        => ~(/\ ScanKey \in DOMAIN scanCache
             /\ scanCache[ScanKey].whole
             /\ scanCache[ScanKey].media_list = resp.media_list)

\* The artwork files of a kind, full image and thumbnail, in a directory.
KindFiles(fs, media_path, prefix) ==
    {f \in fs : f.path = media_path /\ f.name[1] = prefix}

\* C25: a download that fails leaves the full image and the thumbnail of
\* that kind that the directory held in place, and leaves the scan cache
\* and the presence of a thumbnail on disk, which its flag reports, as they
\* were.
C25_FailedDownloadKeepsArtwork ==
    [][(/\ req = NoReq
        /\ req'.op \in {"select_artwork", "confirm_directory"}
        /\ resp'.how \in {"exact", "fuzzy", "selected"}
        /\ ~resp'.saved)
         => LET prefix == file_prefix(req'.artwork_type)
                media_path == resp'.save_dir
            IN  /\ KindFiles(files, media_path, prefix) \subseteq files'
                /\ HasThumb(files', media_path, prefix)
                     = HasThumb(files, media_path, prefix)
                /\ scanCache' = scanCache
      ]_vars

C16_RefreshInvalidates ==
    req.op = "refresh" => scanCache = EmptyMap /\ thumbCache = {}

\* C19: a housekeeping folder is never an item of a scan result, never the
\* directory /select_artwork accepts and never a disambiguation candidate.
C19_DenyListNeverProduced ==
    /\ Scanning
         => \A i \in 1..Len(resp.media_list) :
               ~IsDenied(resp.media_list[i].title)
    /\ (Resolving /\ resp.save_dir # NoPath)
         => ~IsDenied(basename(resp.save_dir))
    /\ Resolving
         => \A i \in 1..Len(resp.similar_dirs) : ~IsDenied(resp.similar_dirs[i])

Ensuring == req.op = "copy_to_cache"

\* What a second copy_to_cache call for the same source would do in the
\* state the first has left, the file operations going as io says.
SecondEnsure(io) ==
    copy_to_cache(thumbCache, files, req.source, req.filename,
                  basename(req.source), req.filename, io)

\* C13, as stated: after an ensure that has written the local copy, a
\* second ensure of the unchanged source writes nothing and reports
\* not-updated.
C13_SecondEnsureIdle ==
    (Ensuring /\ resp.updated)
        => \A io \in CopyOutcomes :
              SecondEnsure(io) = [cache |-> thumbCache, updated |-> FALSE]

\* C13, amended: ensure writes only when no local copy exists or the
\* source's modification time is strictly later than the local copy's; and
\* after an ensure that has written the local copy at a local time not
\* before the source's modification time, a second ensure of the unchanged
\* source writes nothing and reports not-updated.
C13_EnsureWritesOnlyWhenNewer ==
    /\ []((/\ Ensuring
           /\ resp.updated
           /\ MtimeOf(files, req.source, req.filename) <= now)
             => \A io \in CopyOutcomes :
                   SecondEnsure(io) = [cache |-> thumbCache, updated |-> FALSE])
    /\ [][(req = NoReq /\ req'.op = "copy_to_cache" /\ thumbCache' # thumbCache)
             => \/ ~CacheExists(thumbCache, basename(req'.source), req'.filename)
                \/ MtimeOf(files, req'.source, req'.filename)
                      > CacheMtime(thumbCache, basename(req'.source),
                                   req'.filename)
          ]_vars

\* An ensure that replaced an older local copy, the source not being ahead
\* of the local clock.
C13_Witness ==
    /\ Ensuring
    /\ resp.updated
    /\ now = 1
    /\ MtimeOf(files, req.source, req.filename) = 1
    /\ \E c \in thumbCache :
          c.directory = dir_hash(basename(req.source)) /\ c.mtime = 1 /\ c.whole

\* C17: an ensure during which the read of the source or the write of the
\* cache file fails reports not-updated, raises nothing and leaves every
\* previously cached copy in place with the content it had.
C17_CopyFailureContained ==
    [][(/\ req = NoReq
        /\ req'.op = "copy_to_cache"
        /\ req'.io \in {"read_error", "write_error"})
           => /\ ~resp'.updated
              /\ ~resp'.raised
              /\ thumbCache \subseteq thumbCache'
      ]_vars

InitExt ==
    /\ dirs = LayoutCache
    /\ InitCommon

\* The environment writes a poster or a poster thumbnail of some extension
\* into M1/ab.
PlaceArtwork ==
    \E thumb \in BOOLEAN, e \in 1..Len(Extensions) :
        place_thumbnail(join("M1", "ab"), FileName("poster", thumb, Extensions[e]), now)

\* /movies/poster, every listing and every file operation succeeding.
CollectionPageListed ==
    collection_page("movie", "poster",
                    MovieListing([r \in Range(movie_folders) |-> "lists"]),
                    TRUE, "ok", TRUE, "ok")

\* /refresh, the cache directory removed.
RefreshAll == refresh(TRUE, {}, {})

NextExt ==
    \/ PlaceArtwork
    \/ CollectionPageListed
    \/ RefreshAll
    \/ Return

SpecExt == InitExt /\ [][NextExt]_vars

\* The root whose directory an item of a scan of the movie roots is.
RootOf(title) == CHOOSE r \in Range(movie_folders) : title \in dirs[r]

\* The first extension, in the order jpg, jpeg, png, for which the file of
\* the kind exists in media_path (0: none).
FirstExisting(media_path, prefix, thumb) ==
    LET found == {e \in 1..Len(Extensions) :
                    FileExists(files, media_path,
                               FileName(prefix, thumb, Extensions[e]))}
    IN  IF found = {} THEN 0 ELSE SetMin(found)

\* C24: in the items of a full scan, the thumbnail recorded is that of the
\* first extension, in the order jpg, jpeg, png, whose thumbnail file
\* exists, and the full artwork that of the first extension whose artwork
\* file exists, whatever other files are present.
C24_FirstFoundWins ==
    (Scanning /\ resp.how = "miss")
        => \A i \in 1..Len(resp.media_list) :
             LET item == resp.media_list[i]
                 media_path == join(RootOf(item.title), item.title)
                 prefix == file_prefix(req.artwork_type)
                 t == FirstExisting(media_path, prefix, TRUE)
                 a == FirstExisting(media_path, prefix, FALSE)
             IN  /\ IF t = 0 THEN item.artwork_thumb = None
                    ELSE get_cached_artwork_url(item.title,
                             FileName(prefix, TRUE, Extensions[t]))
                         = item.artwork_thumb
                 /\ IF a = 0 THEN item.artwork = None
                    ELSE <<item.title, FileName(prefix, FALSE, Extensions[a])>>
                         = item.artwork

(***************************************************************************)
(* SpecTwin: full scans of a library in which both movie roots hold a      *)
(* directory of the same name.                                             *)
(***************************************************************************)
LayoutTwin == Layout({"ab"}, {"ab"}, {})

InitTwin ==
    /\ dirs = LayoutTwin
    /\ InitCommon

\* The environment writes the poster thumbnail of M1/ab or of M2/ab.
PlaceTwinThumbnail ==
    \E r \in Range(movie_folders) :
        place_thumbnail(join(r, "ab"), PosterThumb, now)

NextTwin ==
    \/ PlaceTwinThumbnail
    \/ CollectionPageListed
    \/ RefreshAll
    \/ Tick
    \/ Return

SpecTwin == InitTwin /\ [][NextTwin]_vars

\* The movie roots that hold a directory named title, in scan order.
RootsHolding(title) ==
    SelectSeq(movie_folders, LAMBDA r : title \in dirs[r])

\* The directory the i-th item of a scan result was made of: the items of
\* one title come in the order of their roots, the sort being stable.
OwnPath(media_list, i) ==
    LET title == media_list[i].title
        rank == Cardinality({j \in 1..i : media_list[j].title = title})
    IN  join(RootsHolding(title)[rank], title)

\* C26: in the result of a full scan, the cached thumbnail that an item's
\* thumbnail URL addresses is a copy of the thumbnail in that item's own
\* directory, also when two roots hold directories of one name.
C26_ThumbnailOfOwnItem ==
    (Scanning /\ resp.how = "miss")
        => \A i \in 1..Len(resp.media_list) :
             LET item == resp.media_list[i]
             IN  item.has_artwork
                   => \A c \in thumbCache :
                        <<c.directory, c.name>> = item.artwork_thumb
                           => c.src = OwnPath(resp.media_list, i)

(***************************************************************************)
(* Two requests at once.  app.run serves each request in a thread of its   *)
(* own, and nothing locks unavailable_artwork.json, so the file operations *)
(* of two toggle_unavailable requests interleave.  threads is [file, last, *)
(* t]: the length of the file and whether it holds one whole document      *)
(* (file), the document of the latest json.dump (last), and for each of    *)
(* the two requests where it stands and its local variables (t).  In       *)
(* these behaviours unavailable is what json.load makes of the file: {}    *)
(* for a file that is missing, empty or does not parse.                    *)
(***************************************************************************)
ThreadIds == {1, 2}

IdleThread ==
    [pc |-> "idle", directory |-> None, artwork_type |-> "none",
     new_status |-> FALSE, data |-> EmptyMap]

InitThreads ==
    [file |-> [len |-> 0, whole |-> FALSE], last |-> EmptyMap,
     t |-> [i \in ThreadIds |-> IdleThread]]

\* The sum of f[x] over the elements of S.
RECURSIVE SumOf(_, _)
SumOf(f, S) ==
    IF S = {} THEN 0
    ELSE LET x == CHOOSE y \in S : TRUE IN f[x] + SumOf(f, S \ {x})

\* The characters json.dump writes for a document {directory: {type: flag}}
\* with its default separators ", " and ": ".
JsonLen(doc) ==
    LET directories == {k[1] : k \in DOMAIN doc}
        types(d) == {k[2] : k \in {j \in DOMAIN doc : j[1] = d}}
        flag(d) == [t \in types(d) |->
                      Len(Spell(t)) + 2 + 2 + (IF doc[<<d, t>>] THEN 4 ELSE 5)]
        inner(d) == 2 + SumOf(flag(d), types(d))
                      + 2 * (Cardinality(types(d)) - 1)
        entry == [d \in directories |-> Len(Spell(d)) + 2 + 2 + inner(d)]
    IN  IF directories = {} THEN 2
        ELSE 2 + SumOf(entry, directories) + 2 * (Cardinality(directories) - 1)

\* A well-formed request reaches line 1087.
toggle_start(i, directory, artwork_type) ==
    /\ threads.t[i].pc = "idle"
    /\ threads' = [threads EXCEPT !.t[i] =
                      [IdleThread EXCEPT !.pc = "check",
                                         !.directory = directory,
                                         !.artwork_type = artwork_type]]
    /\ UNCHANGED unavailable

\* Lines 1087-1088: current_status = is_artwork_unavailable(...), a read of
\* the file, and new_status = not current_status.
toggle_check(i) ==
    LET th == threads.t[i]
    IN  /\ th.pc = "check"
        /\ threads' = [threads EXCEPT
                         !.t[i].pc = "load",
                         !.t[i].new_status =
                            ~is_artwork_unavailable(unavailable, th.directory,
                                                    th.artwork_type, TRUE)]
        /\ UNCHANGED unavailable

\* mark_artwork_unavailable, lines 65-68: a second read of the file, and the
\* flag set in the document read.
mark_load(i) ==
    LET th == threads.t[i]
    IN  /\ th.pc = "load"
        /\ threads' = [threads EXCEPT
                         !.t[i].pc = "open",
                         !.t[i].data =
                            MapPut(load_unavailable_data(unavailable, TRUE),
                                   <<th.directory, th.artwork_type>>,
                                   th.new_status)]
        /\ UNCHANGED unavailable

\* save_unavailable_data, line 51: open(UNAVAILABLE_FILE, 'w') empties the
\* file and puts this request's position at its start.
save_open(i) ==
    /\ threads.t[i].pc = "open"
    /\ unavailable' = EmptyMap
    /\ threads' = [threads EXCEPT !.t[i].pc = "dump",
                                  !.file = [len |-> 0, whole |-> FALSE]]

\* save_unavailable_data, line 52 and the close of the file: the document
\* goes to the start of the file in one write.  What another request has
\* written behind its end since the open stays there, and the file then
\* does not parse.
save_dump(i) ==
    LET th == threads.t[i]
        covers == JsonLen(th.data) >= threads.file.len
    IN  /\ th.pc = "dump"
        /\ unavailable' = IF covers THEN th.data ELSE EmptyMap
        /\ threads' = [threads EXCEPT
                         !.t[i].pc = "done",
                         !.last = th.data,
                         !.file = [len |-> IF covers THEN JsonLen(th.data)
                                           ELSE threads.file.len,
                                   whole |-> covers]]

\* Lines 1092-1097: the save returned True and the response is sent.
toggle_return(i) ==
    /\ threads.t[i].pc = "done"
    /\ threads' = [threads EXCEPT !.t[i] = IdleThread]
    /\ UNCHANGED unavailable

(***************************************************************************)
(* SpecRace: two toggle_unavailable requests, step by step.                *)
(***************************************************************************)
InitRace ==
    /\ dirs = LayoutTie
    /\ files = {}
    /\ directoryMapping = EmptyMap
    /\ scanCache = EmptyMap
    /\ thumbCache = {}
    /\ now = 0
    /\ unavailable = EmptyMap
    /\ norm = NoNorm
    /\ threads = InitThreads
    /\ req = NoReq
    /\ resp = NoResp

\* What a toggle_unavailable request never touches.
RaceRest == <<dirs, files, directoryMapping, scanCache, thumbCache, now, norm, req, resp>>

ToggleStart ==
    /\ \E i \in ThreadIds, directory \in ToggleDirectories :
           toggle_start(i, directory, "poster")
    /\ UNCHANGED RaceRest

ToggleCheck ==
    /\ \E i \in ThreadIds : toggle_check(i)
    /\ UNCHANGED RaceRest

MarkLoad ==
    /\ \E i \in ThreadIds : mark_load(i)
    /\ UNCHANGED RaceRest

SaveOpen ==
    /\ \E i \in ThreadIds : save_open(i)
    /\ UNCHANGED RaceRest

SaveDump ==
    /\ \E i \in ThreadIds : save_dump(i)
    /\ UNCHANGED RaceRest

ToggleReturn ==
    /\ \E i \in ThreadIds : toggle_return(i)
    /\ UNCHANGED RaceRest

NextRace ==
    \/ ToggleStart
    \/ ToggleCheck
    \/ MarkLoad
    \/ SaveOpen
    \/ SaveDump
    \/ ToggleReturn

SpecRace == InitRace /\ [][NextRace]_vars

BothDone == \A i \in ThreadIds : threads.t[i].pc = "done"

\* C21: when two requests that rewrite the unavailability record have both
\* finished, the file holds exactly the whole document of the request that
\* wrote last.
C21_LastWriteWins ==
    BothDone => threads.file.whole /\ unavailable = threads.last

=============================================================================
